---------------------------- MODULE Spec2Model ----------------------------
(***************************************************************************)
(* A model of src/memory_region.rs (async-rdma): the tree of memory        *)
(* regions below one hardware-registered root, its disjoint-range          *)
(* allocator (slice, alloc), the remote descriptor (remote_mr) and the     *)
(* release protocol (impl Drop for MemoryRegion, driven by Arc counts).    *)
(*                                                                         *)
(* Spec is the sequential machine: one caller, every call of which runs to *)
(* completion before the next one starts. SpecConc is the concurrent       *)
(* machine: several threads, each with its own Arc of the root, whose      *)
(* calls interleave at every acquisition of a region's Mutex.              *)
(***************************************************************************)
EXTENDS Integers, Sequences, FiniteSets, TLC

(* ------------------------------ bounds -------------------------------- *)

\* The layout.size() of the root registration (the tests use 128).
RootLen == 4

\* How many regions exist at once: the root and MaxRegions - 1 nodes.
MaxRegions == 3

\* The region id of the root; node ids are Root+1 .. MaxRegions.
Root == 1

RegionIds == Root..MaxRegions

\* How many calls each thread of the concurrent machine makes.
MaxOps == 2

\* The threads; Main is the caller of the sequential machine.
Threads == {1, 2}

Main == CHOOSE t \in Threads : \A u \in Threads : t <= u

\* What registration produced: data.as_ptr(), and the lkey and rkey the
\* hardware wrote into *inner_mr.
Registrations == {[addr |-> 8, lkey |-> 1, rkey |-> 2]}

\* What ibv_dereg_mr may return: 0, or an errno.
DeregErrnos == {0, 1}

\* The ranges and sizes a caller may pass to a region of `length` bytes:
\* every Range<usize> with both ends in 0 .. length+1 (empty, reversed and
\* out-of-bounds ones included), every size in 0 .. length+1.
Offsets(length) == 0..(length + 1)

Ranges(length) == [start : Offsets(length), end : Offsets(length)]

VARIABLES
    mr,      \* mr[r]: the MemoryRegion object r (its immutable fields), or NoRegion
    sub,     \* sub[r]: the Vec<Range<usize>> inside r's Mutex
    strong,  \* strong[r]: the strong count of the Arc that holds r
    held,    \* held[t][r]: thread t owns a handle (an Arc) to r
    hw,      \* the ibv_mr of the root: its keys and the calls to ibv_dereg_mr
    fatal,   \* a panic has ended the program
    ret,     \* what the last call of the sequential caller returned
    poisoned,\* poisoned[r]: a thread panicked holding the guard of r's Mutex
    pc,      \* pc[t]: where thread t stands in its call
    loc,     \* loc[t]: the locals of thread t's call, and what it returned
    nops     \* nops[t]: the calls thread t has started

convars == <<poisoned, pc, loc, nops>>

vars == <<mr, sub, strong, held, hw, fatal, ret, poisoned, pc, loc, nops>>

(* ----------------------- struct MemoryRegion -------------------------- *)

NoRegion ==
    [live |-> FALSE, addr |-> 0, length |-> 0, key |-> 0,
     kind |-> "None", fa |-> 0, root |-> 0]

\* is_node
is_node(r) == mr[r].kind \in {"LocalNode", "RemoteNode"}

\* is_local
is_local(r) == mr[r].kind \in {"LocalRoot", "LocalNode"}

\* root(): node.root for a node, self otherwise
root(r) == IF is_node(r) THEN mr[r].root ELSE r

(* ------------------------------ slice --------------------------------- *)

\* InvalidRange without the check of the end against self.length.
InvalidRangeNoEnd(length, range) == range.start >= range.end

\* InvalidRange with > written for >=: an empty range passes.
InvalidRangeStrict(length, range) ==
    range.start > range.end \/ range.end > length

\* InvalidRange with the end allowed one byte past the region.
InvalidRangePastEnd(length, range) ==
    range.start >= range.end \/ range.end > length + 1

\* The guard of slice: the range is empty, reversed, or ends past the region.
InvalidRange(length, range) ==
    range.start >= range.end \/ range.end > length

\* Apart with sub_range.start written for sub_range.end.
ApartFromStart(range, sub_range) ==
    range.end <= sub_range.start \/ range.start >= sub_range.start

\* The closure of the overlap check, for one entry of sub.
Apart(range, sub_range) ==
    range.end <= sub_range.start \/ range.start >= sub_range.end

\* .iter().all(..) over the locked vector
AllApart(s, range) == \A i \in 1..Len(s) : Apart(range, s[i])

\* Vec::push
Push(s, range) == Append(s, range)

\* One insertion of the stable sort: x goes after the entries whose start is
\* not larger than its own.
InsertByStart(s, x) ==
    LET k == Cardinality({i \in 1..Len(s) : s[i].start <= x.start})
    IN  SubSeq(s, 1, k) \o <<x>> \o SubSeq(s, k + 1, Len(s))

RECURSIVE SortByStart(_)
\* sort_by(|a, b| a.start.cmp(&b.start)): a stable sort on start
SortByStart(s) ==
    IF s = <<>> THEN <<>>
    ELSE InsertByStart(SortByStart(SubSeq(s, 1, Len(s) - 1)), s[Len(s)])

\* NewNode with range.start taken for the address: self.addr is not added.
NewNodeRelAddr(p, range) ==
    [live   |-> TRUE,
     addr   |-> range.start,
     length |-> range.end - range.start,
     key    |-> mr[p].key,
     kind   |-> IF is_local(p) THEN "LocalNode" ELSE "RemoteNode",
     fa     |-> p,
     root   |-> root(p)]

\* The MemoryRegion slice returns for parent p and range.
NewNode(p, range) ==
    [live   |-> TRUE,
     addr   |-> mr[p].addr + range.start,
     length |-> range.end - range.start,
     key    |-> mr[p].key,
     kind   |-> IF is_local(p) THEN "LocalNode" ELSE "RemoteNode",
     fa     |-> p,
     root   |-> root(p)]

\* SliceCall with the push moved before the overlap check.
SliceCallPushFirst(p, range) ==
    IF InvalidRange(mr[p].length, range)
    THEN [ok |-> FALSE, err |-> "InvalidRange", sub |-> sub[p]]
    ELSE IF ~AllApart(sub[p], range)
    THEN [ok |-> FALSE, err |-> "Overlap", sub |-> Push(sub[p], range)]
    ELSE [ok |-> TRUE, err |-> "none", sub |-> SortByStart(Push(sub[p], range))]

\* slice(p, range), run to completion: the result and the vector it leaves.
SliceCall(p, range) ==
    IF InvalidRange(mr[p].length, range)
    THEN [ok |-> FALSE, err |-> "InvalidRange", sub |-> sub[p]]
    ELSE IF ~AllApart(sub[p], range)
    THEN [ok |-> FALSE, err |-> "Overlap", sub |-> sub[p]]
    ELSE [ok |-> TRUE, err |-> "none", sub |-> SortByStart(Push(sub[p], range))]


(* ------------------------------ alloc --------------------------------- *)

NoRange == [start |-> 0, end |-> 0]

\* The values of `ans`: Err(()) and Ok(last..last + size).
AnsErr == [ok |-> FALSE, range |-> NoRange]

AnsOk(cur, size) == [ok |-> TRUE, range |-> [start |-> cur, end |-> cur + size]]

RECURSIVE ScanNoBreak(_, _, _, _)
\* Scan without the break: the loop goes on after a fit, and a later fit
\* overwrites ans.
ScanNoBreak(s, i, cur, size) ==
    IF i > Len(s) THEN [ans |-> AnsErr, last |-> cur]
    ELSE LET rest == ScanNoBreak(s, i + 1, s[i].end, size)
         IN  IF cur + size <= s[i].start /\ ~rest.ans.ok
             THEN [ans |-> AnsOk(cur, size), last |-> rest.last]
             ELSE rest

RECURSIVE ScanStrict(_, _, _, _)
\* Scan with < written for <=: a gap of exactly `size` bytes is passed over.
ScanStrict(s, i, cur, size) ==
    IF i > Len(s) THEN [ans |-> AnsErr, last |-> cur]
    ELSE IF cur + size < s[i].start
    THEN [ans |-> AnsOk(cur, size), last |-> cur]
    ELSE ScanStrict(s, i + 1, s[i].end, size)

RECURSIVE Scan(_, _, _, _)
\* The for loop of alloc from entry i on, entered with last = cur: the values
\* of ans and last it leaves with (by break at the first fit, or at the end).
Scan(s, i, cur, size) ==
    IF i > Len(s) THEN [ans |-> AnsErr, last |-> cur]
    ELSE IF cur + size <= s[i].start
    THEN [ans |-> AnsOk(cur, size), last |-> cur]
    ELSE Scan(s, i + 1, s[i].end, size)

\* The block that computes `range` in alloc: ans after the loop and after the
\* check of last + size against self.length.
AllocRange(s, length, size) ==
    LET sc == Scan(s, 1, 0, size)
    IN  IF sc.last + size <= length THEN AnsOk(sc.last, size) ELSE sc.ans

\* alloc(p, layout) with layout.size() = size, run to completion.
AllocCall(p, size) ==
    LET a == AllocRange(sub[p], mr[p].length, size)
    IN  IF ~a.ok
        THEN [ok |-> FALSE, err |-> "OutOfSpace", sub |-> sub[p], range |-> a.range]
        ELSE [range |-> a.range] @@ SliceCall(p, a.range)

(* ---------------------------- remote_mr ------------------------------- *)

\* inner_mr(): the else branch panics
InnerMrPanics(r) == mr[r].kind # "LocalRoot"

\* rkey(): (*self.inner_mr()).rkey
rkey(r) == hw.rkey

\* remote_mr()
remote_mr(r) == [addr |-> mr[r].addr, len |-> mr[r].length, rkey |-> rkey(r)]

(* ------------------------ impl Drop, Arc counts ----------------------- *)

\* Position that takes the first entry, whatever its range.
PositionFirst(s, own) == IF s = <<>> THEN 0 ELSE 1

\* .iter().position(|x| own == *x): the first match, counted from 1; 0 is None.
Position(s, own) ==
    LET hits == {i \in 1..Len(s) : s[i] = own}
    IN  IF hits = {} THEN 0 ELSE CHOOSE i \in hits : \A j \in hits : i <= j

\* Remove as Vec::pop: the last entry goes, whatever the index.
RemoveLast(s, index) == SubSeq(s, 1, Len(s) - 1)

\* Vec::remove(index) of the entry counted from 1 (it panics past the end).
Remove(s, index) == SubSeq(s, 1, index - 1) \o SubSeq(s, index + 1, Len(s))

\* The range drop looks for in the parent: the node's own bytes, relative
\* to its parent.
OwnRange(m, r) ==
    [start |-> m[r].addr - m[m[r].fa].addr,
     end   |-> m[r].length + m[r].addr - m[m[r].fa].addr]

\* DropLocalRoot without the call of ibv_dereg_mr.
DropLocalRootNoDereg(S, r, errno) == [S EXCEPT !.mr[r] = NoRegion]

\* The LocalRoot arm of drop: ibv_dereg_mr is called, and its errno asserted
\* to be 0; then the fields (the buffer, the protection domain) go.
DropLocalRoot(S, r, errno) ==
    LET S1 == [S EXCEPT !.hw.deregs = @ + 1]
    IN  IF errno # 0 THEN [S1 EXCEPT !.fatal = TRUE]
        ELSE [S1 EXCEPT !.mr[r] = NoRegion]

RECURSIVE DropRegion(_, _, _)
RECURSIVE DecStrong(_, _, _)

\* Dropping one Arc<MemoryRegion> that points to x: the count goes down, and
\* the last one drops the region. S is the program state the drop acts on.
DecStrong(S, x, errno) ==
    IF S.fatal THEN S
    ELSE IF S.strong[x] > 1 THEN [S EXCEPT !.strong[x] = @ - 1]
    ELSE DropRegion([S EXCEPT !.strong[x] = 0], x, errno)

\* Drop::drop of region r, then the drop of its fields (fa, then root).
\* errno is what ibv_dereg_mr returns if it is called.
DropRegion(S, r, errno) ==
    IF Len(S.sub[r]) # 0 THEN [S EXCEPT !.fatal = TRUE]
    ELSE IF S.mr[r].kind = "LocalRoot" THEN DropLocalRoot(S, r, errno)
    ELSE IF S.mr[r].kind \in {"LocalNode", "RemoteNode"} THEN
        LET f == S.mr[r].fa
            index == Position(S.sub[f], OwnRange(S.mr, r))
        IN  IF index = 0 \/ index > Len(S.sub[f]) THEN [S EXCEPT !.fatal = TRUE]
            ELSE DecStrong(
                    DecStrong([S EXCEPT !.sub[f] = Remove(@, index),
                                        !.mr[r] = NoRegion],
                              f, errno),
                    S.mr[r].root, errno)
    ELSE [S EXCEPT !.fatal = TRUE]

(* --------------------------- the machine ------------------------------ *)

NoDesc == [addr |-> 0, len |-> 0, rkey |-> 0]

\* ret: the call; Ok or Err (a panic is not ok either); which return
\* statement gave the Err(()), named after the condition it guards; the
\* region returned, queried or released; the descriptor returned; and, after
\* a successful slice or alloc, the parent's vector as it was before the call.
NoRet ==
    [op |-> "none", ok |-> FALSE, err |-> "none", region |-> 0,
     desc |-> NoDesc, pre |-> <<>>]

\* The locals of a thread that has made no call yet.
NoLoc ==
    [op |-> "none", on |-> 0, size |-> 0, range |-> NoRange, index |-> 0,
     cur |-> 0, todo |-> <<>>, panicking |-> FALSE,
     ok |-> FALSE, err |-> "none", region |-> 0]

\* A tree that is its root alone: the region objects `ids` may come to
\* hold, the root `top` with the hardware state `h` behind it, and an Arc of
\* the root in each thread of `owners`.
Start(ids, owners, top, h) ==
    /\ mr = [r \in ids |-> IF r = Root THEN top ELSE NoRegion]
    /\ sub = [r \in ids |-> <<>>]
    /\ strong = [r \in ids |-> IF r = Root THEN Cardinality(owners) ELSE 0]
    /\ held = [t \in Threads |-> [r \in ids |-> r = Root /\ t \in owners]]
    /\ hw = h
    /\ fatal = FALSE
    /\ ret = NoRet
    /\ poisoned = [r \in ids |-> FALSE]
    /\ pc = [t \in Threads |-> "idle"]
    /\ loc = [t \in Threads |-> NoLoc]
    /\ nops = [t \in Threads |-> 0]

\* The LocalRoot new_from_pd returns for registration reg.
NewLocalRoot(reg) ==
    [live |-> TRUE, addr |-> reg.addr, length |-> RootLen,
     key |-> reg.lkey, kind |-> "LocalRoot", fa |-> 0, root |-> 0]

\* new_from_pd succeeded: a LocalRoot of RootLen bytes; each thread in
\* `owners` has an Arc of it.
Registered(owners) ==
    \E reg \in Registrations :
        Start(RegionIds, owners, NewLocalRoot(reg),
              [lkey |-> reg.lkey, rkey |-> reg.rkey, deregs |-> 0])

Init == Registered({Main})

\* The ids no live region has.
FreeIds == {r \in DOMAIN mr : r # Root /\ ~mr[r].live}

NewId == CHOOSE r \in FreeIds : \A q \in FreeIds : r <= q

\* CloneArcs without self.clone(): the node keeps no Arc of its parent.
CloneArcsRootOnly(p) == [strong EXCEPT ![root(p)] = @ + 1]

\* The Arc clones of slice: self.clone() for fa and self.root() for root.
CloneArcs(p) ==
    LET one == [strong EXCEPT ![p] = @ + 1]
    IN  [one EXCEPT ![root(p)] = @ + 1]

\* What a call of slice or alloc on p with result res leaves behind. The
\* caller owns the new region; to slice it further it wraps it in an Arc.
Returned(op, p, range, res) ==
    /\ res.ok => FreeIds # {}
    /\ sub' = [sub EXCEPT ![p] = res.sub]
    /\ IF res.ok
       THEN /\ mr' = [mr EXCEPT ![NewId] = NewNode(p, range)]
            /\ strong' = [CloneArcs(p) EXCEPT ![NewId] = 1]
            /\ held' = [held EXCEPT ![Main][NewId] = TRUE]
       ELSE UNCHANGED <<mr, strong, held>>
    /\ ret' = [NoRet EXCEPT !.op = op, !.ok = res.ok, !.err = res.err,
                            !.region = IF res.ok THEN NewId ELSE 0,
                            !.pre = IF res.ok THEN sub[p] ELSE <<>>]
    /\ UNCHANGED <<hw, fatal, convars>>

Slice(p, range) ==
    /\ ~fatal /\ held[Main][p]
    /\ Returned("slice", p, range, SliceCall(p, range))

Alloc(p, size) ==
    /\ ~fatal /\ held[Main][p]
    /\ LET res == AllocCall(p, size)
       IN  Returned("alloc", p, res.range, res)

RemoteMr(r) ==
    /\ ~fatal /\ held[Main][r]
    /\ fatal' = InnerMrPanics(r)
    /\ ret' = [NoRet EXCEPT !.op = "remote_mr", !.ok = ~InnerMrPanics(r),
                            !.region = r,
                            !.desc = IF InnerMrPanics(r) THEN NoDesc
                                     ELSE remote_mr(r)]
    /\ UNCHANGED <<mr, sub, strong, held, hw, convars>>

\* The caller drops its handle to r.
Release(r, errno) ==
    /\ ~fatal /\ held[Main][r]
    /\ LET S == DecStrong([mr |-> mr, sub |-> sub, strong |-> strong,
                           hw |-> hw, fatal |-> FALSE], r, errno)
       IN  /\ mr' = S.mr
           /\ sub' = S.sub
           /\ strong' = S.strong
           /\ hw' = S.hw
           /\ fatal' = S.fatal
    /\ held' = [held EXCEPT ![Main][r] = FALSE]
    /\ ret' = [NoRet EXCEPT !.op = "drop", !.ok = ~fatal', !.region = r]
    /\ UNCHANGED convars

Next ==
    \/ \E p \in DOMAIN mr : \E range \in Ranges(mr[p].length) : Slice(p, range)
    \/ \E p \in DOMAIN mr : \E size \in Offsets(mr[p].length) : Alloc(p, size)
    \/ \E r \in DOMAIN mr : RemoteMr(r)
    \/ \E r \in DOMAIN mr, errno \in DeregErrnos : Release(r, errno)

Spec == Init /\ [][Next]_vars

\* The descriptors a peer may send: RemoteMemoryRegion {addr, len, rkey}.
Descriptors == {[addr |-> 16, len |-> RootLen, rkey |-> 3]}

\* A RemoteRoot imported from a peer's descriptor: the region takes the
\* descriptor's address, length and key; no local ibv_mr stands behind it.
Imported(owners) ==
    \E d \in Descriptors :
        Start(RegionIds, owners,
              [live |-> TRUE, addr |-> d.addr, length |-> d.len,
               key |-> d.rkey, kind |-> "RemoteRoot", fa |-> 0, root |-> 0],
              [lkey |-> 0, rkey |-> 0, deregs |-> 0])

\* The sequential caller on a tree of either kind of root.
SpecAny == (Init \/ Imported({Main})) /\ [][Next]_vars

\* The region objects of a tree that has room for one more node.
TreeIds == Root..(MaxRegions + 1)

\* The sequential caller on a registered root, with room for TreeIds.
SpecTree ==
    /\ \E reg \in Registrations :
          Start(TreeIds, {Main}, NewLocalRoot(reg),
                [lkey |-> reg.lkey, rkey |-> reg.rkey, deregs |-> 0])
    /\ [][Next]_vars

(* ----------------------- the concurrent machine ---------------------- *)
(* Each `self.sub.lock().unwrap()` statement is one atomic step: the guard *)
(* is a temporary, released at the end of its statement. What a thread     *)
(* does between two of them touches only its own locals and the immutable  *)
(* fields of regions it keeps alive, and is folded into the step before.   *)
(* lock().unwrap() panics on a poisoned Mutex. A panic inside Drop::drop   *)
(* still drops the fields of the region; a second panic then aborts the    *)
(* program. A thread that panicked makes no further step (the handles it   *)
(* still owns are not released).                                           *)

\* The calls under way that may still create a region.
Creating == {u \in Threads : pc[u] \in {"scan", "check", "push", "sort"}}

\* There is an id left for one more region.
HasRoom ==
    Cardinality({r \in RegionIds : mr[r].live}) + Cardinality(Creating) < MaxRegions

Upd(t, newpc, newloc) ==
    /\ pc' = [pc EXCEPT ![t] = newpc]
    /\ loc' = [loc EXCEPT ![t] = newloc]

\* The call of thread t returns.
Finish(t, ok, err, region) ==
    Upd(t, "idle", [NoLoc EXCEPT !.op = loc[t].op, !.on = loc[t].on,
                                 !.size = loc[t].size, !.ok = ok,
                                 !.err = err, !.region = region])

\* slice, up to its first lock: the range guard.
CStartSlice(t, p, range) ==
    /\ ~fatal /\ pc[t] = "idle" /\ nops[t] < MaxOps /\ held[t][p] /\ HasRoom
    /\ nops' = [nops EXCEPT ![t] = @ + 1]
    /\ IF InvalidRange(mr[p].length, range)
       THEN Upd(t, "idle", [NoLoc EXCEPT !.op = "slice", !.on = p,
                                         !.err = "InvalidRange"])
       ELSE Upd(t, "check", [NoLoc EXCEPT !.op = "slice", !.on = p,
                                          !.range = range])
    /\ UNCHANGED <<mr, sub, strong, held, hw, fatal, ret, poisoned>>

\* alloc is called.
CStartAlloc(t, p, size) ==
    /\ ~fatal /\ pc[t] = "idle" /\ nops[t] < MaxOps /\ held[t][p] /\ HasRoom
    /\ nops' = [nops EXCEPT ![t] = @ + 1]
    /\ Upd(t, "scan", [NoLoc EXCEPT !.op = "alloc", !.on = p, !.size = size])
    /\ UNCHANGED <<mr, sub, strong, held, hw, fatal, ret, poisoned>>

\* alloc: the loop over the locked vector, the check of the tail, `ans?`,
\* and the range guard of the slice it then calls.
CScan(t) ==
    /\ ~fatal /\ pc[t] = "scan"
    /\ LET p == loc[t].on
           a == AllocRange(sub[p], mr[p].length, loc[t].size)
       IN  IF poisoned[p] THEN Upd(t, "panicked", loc[t])
           ELSE IF ~a.ok THEN Finish(t, FALSE, "OutOfSpace", 0)
           ELSE IF InvalidRange(mr[p].length, a.range)
           THEN Finish(t, FALSE, "InvalidRange", 0)
           ELSE Upd(t, "check", [loc[t] EXCEPT !.range = a.range])
    /\ UNCHANGED <<mr, sub, strong, held, hw, fatal, ret, poisoned, nops>>

\* slice: the overlap check, under its own lock.
CCheck(t) ==
    /\ ~fatal /\ pc[t] = "check"
    /\ LET p == loc[t].on
       IN  IF poisoned[p] THEN Upd(t, "panicked", loc[t])
           ELSE IF AllApart(sub[p], loc[t].range) THEN Upd(t, "push", loc[t])
           ELSE Finish(t, FALSE, "Overlap", 0)
    /\ UNCHANGED <<mr, sub, strong, held, hw, fatal, ret, poisoned, nops>>

\* slice: the push, under its own lock.
CPush(t) ==
    /\ ~fatal /\ pc[t] = "push"
    /\ LET p == loc[t].on
       IN  IF poisoned[p]
           THEN Upd(t, "panicked", loc[t]) /\ UNCHANGED sub
           ELSE /\ Upd(t, "sort", loc[t])
                /\ sub' = [sub EXCEPT ![p] = Push(@, loc[t].range)]
    /\ UNCHANGED <<mr, strong, held, hw, fatal, ret, poisoned, nops>>

\* slice: the sort, under its own lock, and the region returned.
CSort(t) ==
    /\ ~fatal /\ pc[t] = "sort"
    /\ LET p == loc[t].on
       IN  IF poisoned[p]
           THEN /\ Upd(t, "panicked", loc[t])
                /\ UNCHANGED <<mr, sub, strong, held>>
           ELSE /\ sub' = [sub EXCEPT ![p] = SortByStart(@)]
                /\ mr' = [mr EXCEPT ![NewId] = NewNode(p, loc[t].range)]
                /\ strong' = [CloneArcs(p) EXCEPT ![NewId] = 1]
                /\ held' = [held EXCEPT ![t][NewId] = TRUE]
                /\ Finish(t, TRUE, "none", NewId)
    /\ UNCHANGED <<hw, fatal, ret, poisoned, nops>>

\* Thread t drops its handle to r.
CStartDrop(t, r) ==
    /\ ~fatal /\ pc[t] = "idle" /\ nops[t] < MaxOps /\ held[t][r]
    /\ nops' = [nops EXCEPT ![t] = @ + 1]
    /\ held' = [held EXCEPT ![t][r] = FALSE]
    /\ Upd(t, "d_arc", [NoLoc EXCEPT !.op = "drop", !.on = r, !.todo = <<r>>])
    /\ UNCHANGED <<mr, sub, strong, hw, fatal, ret, poisoned>>

\* The next Arc to drop: its count goes down; the last one drops the region.
\* With none left the call returns, or the panic leaves the thread.
CDropArc(t) ==
    /\ ~fatal /\ pc[t] = "d_arc"
    /\ IF loc[t].todo = <<>>
       THEN /\ IF loc[t].panicking THEN Upd(t, "panicked", loc[t])
               ELSE Finish(t, TRUE, "none", 0)
            /\ UNCHANGED strong
       ELSE LET x == Head(loc[t].todo)
            IN  /\ strong' = [strong EXCEPT ![x] = @ - 1]
                /\ IF strong[x] = 1
                   THEN Upd(t, "d_assert", [loc[t] EXCEPT !.cur = x,
                                               !.todo = Tail(@)])
                   ELSE Upd(t, "d_arc", [loc[t] EXCEPT !.todo = Tail(@)])
    /\ UNCHANGED <<mr, sub, held, hw, fatal, ret, poisoned, nops>>

\* The Arcs among the fields of region x: fa and root of a node.
Fields(x) ==
    IF mr[x].kind \in {"LocalNode", "RemoteNode"}
    THEN <<mr[x].fa, mr[x].root>>
    ELSE <<>>

\* Drop::drop of region x panics in thread t: a second panic aborts; a first
\* one unwinds, dropping the fields of x.
DropPanics(t, x) ==
    IF loc[t].panicking
    THEN fatal' = TRUE /\ UNCHANGED <<pc, loc, mr>>
    ELSE /\ fatal' = fatal
         /\ mr' = [mr EXCEPT ![x] = NoRegion]
         /\ Upd(t, "d_arc", [loc[t] EXCEPT !.panicking = TRUE,
                                           !.todo = Fields(x) \o @])

\* drop: the assertion that sub is empty, under the lock, and the match on
\* kind with the arm of a root.
CDropAssert(t, errno) ==
    /\ ~fatal /\ pc[t] = "d_assert"
    /\ LET x == loc[t].cur
       IN  IF poisoned[x]
           THEN DropPanics(t, x) /\ UNCHANGED <<poisoned, hw>>
           ELSE IF Len(sub[x]) # 0
           THEN /\ poisoned' = [poisoned EXCEPT ![x] = TRUE]
                /\ DropPanics(t, x) /\ UNCHANGED hw
           ELSE IF mr[x].kind = "LocalRoot"
           THEN /\ hw' = [hw EXCEPT !.deregs = @ + 1]
                /\ IF errno # 0 THEN DropPanics(t, x)
                   ELSE /\ mr' = [mr EXCEPT ![x] = NoRegion]
                        /\ Upd(t, "d_arc", loc[t])
                        /\ UNCHANGED fatal
                /\ UNCHANGED poisoned
           ELSE IF mr[x].kind \in {"LocalNode", "RemoteNode"}
           THEN /\ Upd(t, "d_find", loc[t])
                /\ UNCHANGED <<mr, fatal, poisoned, hw>>
           ELSE DropPanics(t, x) /\ UNCHANGED <<poisoned, hw>>
    /\ UNCHANGED <<sub, strong, held, ret, nops>>

\* drop of a node: position(..).unwrap(), under the lock of the parent.
CDropFind(t) ==
    /\ ~fatal /\ pc[t] = "d_find"
    /\ LET x == loc[t].cur
           f == mr[x].fa
           index == Position(sub[f], OwnRange(mr, x))
       IN  IF poisoned[f]
           THEN DropPanics(t, x) /\ UNCHANGED poisoned
           ELSE IF index = 0
           THEN /\ poisoned' = [poisoned EXCEPT ![f] = TRUE]
                /\ DropPanics(t, x)
           ELSE /\ Upd(t, "d_remove", [loc[t] EXCEPT !.index = index])
                /\ UNCHANGED <<mr, fatal, poisoned>>
    /\ UNCHANGED <<sub, strong, held, hw, ret, nops>>

\* CDropRemove with the guard taken for position(..) still alive (bound to a
\* name): the thread locks a Mutex it holds, and lock() never returns.
CDropRemoveHeld(t) ==
    /\ pc[t] = "d_remove" /\ FALSE
    /\ UNCHANGED vars

\* drop of a node: remove(index), under the lock of the parent, taken anew;
\* then the fields of the node go.
CDropRemove(t) ==
    /\ ~fatal /\ pc[t] = "d_remove"
    /\ LET x == loc[t].cur
           f == mr[x].fa
       IN  IF poisoned[f]
           THEN DropPanics(t, x) /\ UNCHANGED <<poisoned, sub>>
           ELSE IF loc[t].index > Len(sub[f])
           THEN /\ poisoned' = [poisoned EXCEPT ![f] = TRUE]
                /\ DropPanics(t, x) /\ UNCHANGED sub
           ELSE /\ sub' = [sub EXCEPT ![f] = Remove(@, loc[t].index)]
                /\ mr' = [mr EXCEPT ![x] = NoRegion]
                /\ Upd(t, "d_arc", [loc[t] EXCEPT !.todo = Fields(x) \o @])
                /\ UNCHANGED <<fatal, poisoned>>
    /\ UNCHANGED <<strong, held, hw, ret, nops>>

NextConc ==
    \E t \in Threads :
        \/ \E p \in RegionIds : \E range \in Ranges(mr[p].length) :
              CStartSlice(t, p, range)
        \/ \E p \in RegionIds : \E size \in Offsets(mr[p].length) :
              CStartAlloc(t, p, size)
        \/ CScan(t)
        \/ CCheck(t)
        \/ CPush(t)
        \/ CSort(t)
        \/ \E r \in RegionIds : CStartDrop(t, r)
        \/ CDropArc(t)
        \/ \E errno \in DeregErrnos : CDropAssert(t, errno)
        \/ CDropFind(t)
        \/ CDropRemove(t)

SpecConc == Registered(Threads) /\ [][NextConc]_vars

\* The steps that take the call of thread t on: none of them waits for
\* another thread beyond the critical section of that thread's own step.
Step(t) ==
    \/ CScan(t)
    \/ CCheck(t)
    \/ CPush(t)
    \/ CSort(t)
    \/ CDropArc(t)
    \/ \E errno \in DeregErrnos : CDropAssert(t, errno)
    \/ CDropFind(t)
    \/ CDropRemove(t)

\* The concurrent machine under a fair scheduler: a thread that can take a
\* step of its call is not held back forever.
SpecConcFair == SpecConc /\ \A t \in Threads : WF_vars(Step(t))

(* ----------------------------- properties ----------------------------- *)

\* The bytes of a half-open range.
Bytes(range) == {x \in range.start..(range.end - 1) : TRUE}

\* The absolute bytes [addr, addr + length) of region r.
Span(r) == Bytes([start |-> mr[r].addr, end |-> mr[r].addr + mr[r].length])

\* The live children of region p.
Children(p) == {c \in RegionIds : mr[c].live /\ mr[c].fa = p}

\* C1 (disjointness): in every state the sequential machine reaches, any two
\* live children of one parent cover disjoint bytes, and the entries of the
\* parent's sub are pairwise disjoint.
C1_Disjoint ==
    \A p \in RegionIds :
        /\ \A c, d \in Children(p) : c # d => Span(c) \cap Span(d) = {}
        /\ \A i, j \in 1..Len(sub[p]) :
              i # j => Bytes(sub[p][i]) \cap Bytes(sub[p][j]) = {}

\* Two children of the root are live, right after a successful slice or alloc.
C1_Witness ==
    /\ ret.op \in {"slice", "alloc"} /\ ret.ok
    /\ Cardinality(Children(Root)) = 2
    /\ Len(sub[Root]) = 2

\* C9 (bounds): every entry of every region's sub satisfies
\* 0 <= start < end <= length, and every live node lies inside its parent.
C9_Bounds ==
    /\ \A r \in RegionIds : \A i \in 1..Len(sub[r]) :
          /\ 0 <= sub[r][i].start
          /\ sub[r][i].start < sub[r][i].end
          /\ sub[r][i].end <= mr[r].length
    /\ \A c \in RegionIds :
          mr[c].live /\ c # Root =>
              /\ mr[mr[c].fa].addr <= mr[c].addr
              /\ mr[c].addr + mr[c].length <= mr[mr[c].fa].addr + mr[mr[c].fa].length

\* A node of a node is live, and it ends where its parent ends, short of the
\* end of the root.
C9_Witness ==
    \E c \in RegionIds :
        /\ mr[c].live /\ c # Root /\ mr[c].fa # Root
        /\ mr[c].addr + mr[c].length = mr[mr[c].fa].addr + mr[mr[c].fa].length
        /\ mr[c].addr + mr[c].length < mr[Root].addr + mr[Root].length
        /\ sub[mr[c].fa] # <<>>

\* The range falls on a byte some entry of s covers.
Hits(s, range) == \E i \in 1..Len(s) : Bytes(range) \cap Bytes(s[i]) # {}

\* The range a live node c covers, relative to its parent, in the next state.
Carved(c) ==
    [start |-> mr'[c].addr - mr'[mr'[c].fa].addr,
     end   |-> mr'[c].addr - mr'[mr'[c].fa].addr + mr'[c].length]

\* What C5 says of the result res of one call slice(p, range).
C5_Rule(p, range, res) ==
    IF range.start >= range.end \/ range.end > mr[p].length
    THEN ~res.ok /\ res.err = "InvalidRange"
    ELSE IF Hits(sub[p], range)
    THEN ~res.ok /\ res.err = "Overlap"
    ELSE res.ok

\* C5 (slice acceptance rule): in every state, each call slice(p, range) a
\* caller can make fails at the range guard if range.start >= range.end or
\* range.end > p.length, fails at the overlap check if the range shares a
\* byte with an entry of p's sub, and succeeds in every other case; and every
\* slice that does succeed hands out a range that passes both tests. (Both
\* failures are the same Err(()) to the caller; err names the return taken.)
C5_SliceRule ==
    /\ [](\A p \in RegionIds : held[Main][p] =>
             \A range \in Ranges(mr[p].length) :
                 C5_Rule(p, range, SliceCall(p, range)))
    /\ [][(ret'.op = "slice" /\ ret'.ok) =>
             LET p == mr'[ret'.region].fa
                 range == Carved(ret'.region)
             IN  /\ held[Main][p]
                 /\ range.start < range.end /\ range.end <= mr[p].length
                 /\ ~Hits(sub[p], range)
                 /\ Slice(p, range)]_vars

\* The root holds [0,2) alone and a second slice of [0,2) has just been
\* refused for overlap: the state from which [2,4) is then accepted.
C5_Witness ==
    /\ ret.op = "slice" /\ ~ret.ok /\ ret.err = "Overlap"
    /\ sub[Root] = <<[start |-> 0, end |-> 2]>>
    /\ Cardinality(Children(Root)) = 1
    /\ SliceCall(Root, [start |-> 0, end |-> 2]).err = "Overlap"
    /\ SliceCall(Root, [start |-> 2, end |-> 4]).ok

\* Some c has [c, c + size) inside [0, length) and free of every entry of s.
Fits(s, length, size) ==
    {c \in 0..length : c + size <= length
                       /\ ~Hits(s, [start |-> c, end |-> c + size])}

\* C7 (alloc completeness): in every state, each call alloc(p, size) with
\* size >= 1 a caller can make succeeds if and only if p's sub leaves size
\* contiguous free bytes inside [0, p.length), and otherwise fails for want
\* of space, at the `ans?` of alloc; and every alloc that does succeed was
\* made where such bytes were free.
C7_AllocComplete ==
    /\ [](\A p \in RegionIds : held[Main][p] =>
             \A size \in Offsets(mr[p].length) \ {0} :
                 IF Fits(sub[p], mr[p].length, size) # {}
                 THEN AllocCall(p, size).ok
                 ELSE /\ ~AllocCall(p, size).ok
                      /\ AllocCall(p, size).err = "OutOfSpace")
    /\ [][(ret'.op = "alloc" /\ ret'.ok) =>
             LET p == mr'[ret'.region].fa
                 size == mr'[ret'.region].length
             IN  /\ Fits(sub[p], mr[p].length, size) # {}
                 /\ Alloc(p, size)]_vars

\* An alloc has just failed for want of space on a root that still has free
\* bytes, on both sides of its one child.
C7_Witness ==
    /\ ret.op = "alloc" /\ ~ret.ok /\ ret.err = "OutOfSpace"
    /\ Len(sub[Root]) = 1
    /\ sub[Root][1].start > 0
    /\ sub[Root][1].end < mr[Root].length

\* C8 (first fit): a successful alloc(p, size) returns the child
\* [c, c + size) with c the lowest offset at which size bytes are inside
\* [0, p.length) and free of every entry p's sub had before the call; c is 0
\* or the end of one of those entries.
C8_FirstFit ==
    [][(ret'.op = "alloc" /\ ret'.ok) =>
          LET p == mr'[ret'.region].fa
              size == mr'[ret'.region].length
              got == Carved(ret'.region)
          IN  /\ Alloc(p, size)
              /\ got.end = got.start + size
              /\ got.start \in Fits(sub[p], mr[p].length, size)
              /\ \A c \in Fits(sub[p], mr[p].length, size) : got.start <= c
              /\ \/ got.start = 0
                 \/ \E i \in 1..Len(sub[p]) : sub[p][i].end = got.start]_vars

\* An alloc has just succeeded into the gap before an older child, with free
\* bytes left behind that child too.
C8_Witness ==
    /\ ret.op = "alloc" /\ ret.ok
    /\ Len(sub[Root]) = 2
    /\ mr[ret.region].fa = Root
    /\ mr[ret.region].addr = mr[Root].addr
    /\ sub[Root][2].end < mr[Root].length
    /\ sub[Root][1].end < sub[Root][2].start

\* C10 (no effect on failure): a slice or alloc that fails leaves every
\* region's sub, every region, every Arc count and the registration as they
\* were.
C10_FailureFrame ==
    [][(ret'.op \in {"slice", "alloc"} /\ ~ret'.ok) =>
          UNCHANGED <<mr, sub, strong, held, hw, fatal>>]_vars

\* A call has just been refused for overlap while a held node has a child of
\* its own.
C10_Witness ==
    /\ ret.op \in {"slice", "alloc"} /\ ~ret.ok
    /\ ret.err = "Overlap"
    /\ \E p \in RegionIds : p # Root /\ held[Main][p] /\ Len(sub[p]) = 1

\* The nodes: every region but the root descends from it.
Nodes == RegionIds \ {Root}

\* C6 (reclaim and reuse): dropping a child right after the slice or alloc
\* that made it destroys it and leaves its parent's sub exactly as it was
\* before that call; and in every state alloc(root, root.length), where the
\* caller can make it, succeeds exactly when the root has no live child (so
\* it succeeds, then fails while the child lives, then succeeds again once
\* the child is dropped), the child it returns covering the whole root.
C6_Reclaim ==
    /\ []((held[Main][Root] /\ ~fatal) =>
             (AllocCall(Root, mr[Root].length).ok <=> Children(Root) = {}))
    /\ [][/\ (/\ ret.op \in {"slice", "alloc"} /\ ret.ok
              /\ ret'.op = "drop" /\ ret'.region = ret.region)
             => /\ ret'.ok
                /\ ~mr'[ret.region].live
                /\ sub'[mr[ret.region].fa] = ret.pre
          /\ (/\ ret'.op = "alloc" /\ ret'.ok
              /\ mr'[ret'.region].fa = Root
              /\ mr'[ret'.region].length = mr[Root].length)
             => /\ Children(Root) = {}
                /\ mr'[ret'.region].addr = mr[Root].addr
         ]_vars

\* A node has just been dropped, leaving the root, still held, with a child
\* (so sub is not empty) whose bytes do not reach the end of the root.
C6_Witness ==
    /\ ret.op = "drop" /\ ret.ok /\ ret.region # Root
    /\ ~mr[ret.region].live
    /\ held[Main][Root]
    /\ Len(sub[Root]) = 1
    /\ sub[Root][1].end < mr[Root].length

\* C3 (deregistration ordering): ibv_dereg_mr is called at most once; when it
\* has been called no node is live, the root's sub is empty and no Arc holds
\* the root; and it has been called once the root's handle is released and no
\* node is live, whichever was released last.
C3_DeregOnce ==
    /\ hw.deregs \in {0, 1}
    /\ hw.deregs = 1 =>
          /\ \A n \in Nodes : ~mr[n].live
          /\ sub[Root] = <<>>
          /\ strong[Root] = 0
    /\ (~held[Main][Root] /\ \A n \in Nodes : ~mr[n].live) => hw.deregs = 1

\* The root was deregistered by the release of a node's handle: the root's
\* own handle had been released while that node was live.
C3_Witness ==
    /\ hw.deregs = 1
    /\ ret.op = "drop" /\ ret.ok /\ ret.region # Root
    /\ ~mr[Root].live

\* C4 (descriptor fidelity), as claimed: remote_mr on any live region, root
\* or node, returns its address, its length and the rkey of the registration.
C4_DescriptorFidelity ==
    ret.op = "remote_mr" =>
        /\ ret.ok
        /\ ~fatal
        /\ ret.desc = [addr |-> mr[ret.region].addr,
                       len  |-> mr[ret.region].length,
                       rkey |-> hw.rkey]

\* Every thread has made one call, alloc of `size` bytes on the root, and
\* all of them have returned.
AllAllocated(size) ==
    \A t \in Threads :
        /\ pc[t] = "idle" /\ nops[t] = 1
        /\ loc[t].op = "alloc" /\ loc[t].on = Root /\ loc[t].size = size

\* The threads whose call returned Ok.
Winners == {t \in Threads : loc[t].ok}

\* C2 (concurrent slicing), as claimed: when the threads, N of them, have
\* concurrently called alloc(size) on a root of N * size bytes, all N calls
\* have succeeded; when the root has (N - 1) * size bytes, exactly N - 1 have
\* succeeded and one has failed; and the regions returned are pairwise
\* disjoint.
C2_ConcurrentAlloc ==
    \A size \in 1..RootLen :
        AllAllocated(size) =>
            /\ Cardinality(Threads) * size = mr[Root].length
                  => Winners = Threads
            /\ (Cardinality(Threads) - 1) * size = mr[Root].length
                  => Cardinality(Winners) = Cardinality(Threads) - 1
            /\ \A t, u \in Winners :
                  t # u => Span(loc[t].region) \cap Span(loc[u].region) = {}

(* ------------------- properties of concurrent callers ------------------ *)

\* The threads whose last call, a slice or alloc on p, returned a region
\* that is still live.
Makers(p) ==
    {t \in Threads : /\ pc[t] = "idle" /\ loc[t].op \in {"slice", "alloc"}
                     /\ loc[t].on = p /\ loc[t].ok /\ mr[loc[t].region].live}

\* C11 (atomic check-and-insert), as claimed: under every interleaving of
\* the threads' slice and alloc calls on one parent, the regions two calls
\* have returned never share a byte, and no two entries of the parent's sub
\* overlap.
C11_AtomicCheckInsert ==
    \A p \in RegionIds :
        /\ \A t, u \in Makers(p) :
              t # u => Span(loc[t].region) \cap Span(loc[u].region) = {}
        /\ \A i, j \in 1..Len(sub[p]) :
              i < j => ~Hits(<<sub[p][i]>>, sub[p][j])

\* C12 (serialized removal), as claimed: when a thread's drop of a node
\* whose range is in its parent's sub, the parent's Mutex not poisoned,
\* takes the step that removes, the step does not panic and leaves the
\* parent's sub without the one entry equal to the node's range, every
\* other entry in place.
C12_SerializedRemoval ==
    [][\A t \in Threads :
          LET x == loc[t].cur
              f == mr[x].fa
              own == [start |-> mr[x].addr - mr[f].addr,
                      end   |-> mr[x].addr - mr[f].addr + mr[x].length]
          IN  (/\ pc[t] = "d_remove" /\ pc'[t] # "d_remove"
               /\ ~poisoned[f]
               /\ \E i \in 1..Len(sub[f]) : sub[f][i] = own)
              => /\ ~fatal' /\ ~poisoned'[f] /\ ~loc'[t].panicking
                 /\ \E i \in 1..Len(sub[f]) :
                       /\ sub[f][i] = own
                       /\ sub'[f] = SubSeq(sub[f], 1, i - 1)
                                    \o SubSeq(sub[f], i + 1, Len(sub[f]))
      ]_vars

(* ------------------- properties of the release order ------------------- *)

\* The program state as the drop operators take it.
Now == [mr |-> mr, sub |-> sub, strong |-> strong, hw |-> hw, fatal |-> FALSE]

\* C13 (release in any order): in every state the sequential machine
\* reaches, (1) releasing any handle the caller holds, the root's or a
\* node's, whatever is still live below it, runs no failing assertion on sub
\* and no failing lookup in the parent; (2) every live node's parent and root
\* are live, so a region is destroyed only once no descendant of it is live;
\* and (3) a release ends in a panic only when ibv_dereg_mr was called in it
\* (and returned an errno).
C13_AnyOrder ==
    /\ [](~fatal => \A r \in RegionIds :
                        held[Main][r] => ~DecStrong(Now, r, 0).fatal)
    /\ [](\A c \in RegionIds :
             (mr[c].live /\ c # Root) =>
                 /\ mr[mr[c].fa].live /\ strong[mr[c].fa] >= 1
                 /\ mr[mr[c].root].live /\ strong[mr[c].root] >= 1)
    /\ [][(ret'.op = "drop" /\ fatal') => hw'.deregs = hw.deregs + 1]_vars

\* The handle of a node has just been released while its child is live, the
\* root's handle having been released before: root and node both live on.
C13_Witness ==
    /\ ret.op = "drop" /\ ret.ok /\ ret.region # Root
    /\ ~held[Main][Root] /\ mr[Root].live
    /\ mr[ret.region].live /\ ~held[Main][ret.region]
    /\ \E c \in RegionIds : mr[c].live /\ mr[c].fa = ret.region /\ held[Main][c]

\* The range of live node c relative to its parent.
Rel(c) ==
    [start |-> mr[c].addr - mr[mr[c].fa].addr,
     end   |-> mr[c].addr - mr[mr[c].fa].addr + mr[c].length]

\* C14 (bookkeeping matches live children): in every state the sequential
\* machine reaches, each region's sub holds as many entries as the region
\* has live children, every live child's relative range is an entry and
\* every entry is the relative range of a live child; and a step changes a
\* region's sub only by adding one entry, in a successful slice or alloc on
\* that region, or by taking entries out, in a release that destroys a child
\* of that region.
C14_Bookkeeping ==
    /\ [](\A p \in RegionIds :
             /\ Len(sub[p]) = Cardinality(Children(p))
             /\ \A c \in Children(p) : \E i \in 1..Len(sub[p]) : sub[p][i] = Rel(c)
             /\ \A i \in 1..Len(sub[p]) : \E c \in Children(p) : sub[p][i] = Rel(c))
    /\ [][\A p \in RegionIds :
             sub'[p] # sub[p] =>
                 \/ /\ ret'.op \in {"slice", "alloc"} /\ ret'.ok
                    /\ mr'[ret'.region].fa = p
                    /\ ~mr[ret'.region].live
                    /\ Len(sub'[p]) = Len(sub[p]) + 1
                 \/ /\ ret'.op = "drop"
                    /\ Len(sub'[p]) = Len(sub[p]) - 1
                    /\ \E c \in Children(p) :
                          /\ ~mr'[c].live
                          /\ \A i \in 1..Len(sub'[p]) : sub'[p][i] # Rel(c)]_vars

\* A release has just destroyed a node; the root keeps one live child, not
\* at offset 0, and its sub holds exactly that child's entry.
C14_Witness ==
    /\ ret.op = "drop" /\ ret.ok /\ ~mr[ret.region].live
    /\ Cardinality(Children(Root)) = 1
    /\ sub[Root] # <<>> /\ sub[Root][1].start > 0
    /\ \E c \in Children(Root) : sub[Root] = <<Rel(c)>>

\* C15 (sorted bookkeeping), as claimed: in every state of the concurrent
\* machine (no region's lock is held between two steps, so each state is one
\* another thread can observe), every region's sub is in ascending order of
\* start, also while a slice on that region is under way.
C15_SortedBookkeeping ==
    \A p \in RegionIds :
        \A i, j \in 1..Len(sub[p]) : i < j => sub[p][i].start <= sub[p][j].start

(* ------------------- properties of trees of either kind ---------------- *)

\* The entry the step has added to the sub of region p.
Added(p) ==
    CHOOSE e \in {sub'[p][i] : i \in 1..Len(sub'[p])} :
        \A j \in 1..Len(sub[p]) : sub[p][j] # e

\* C16 (child attributes): on a tree under a local or an imported root,
\* (1) the region a successful slice(p, range) or alloc on p returns has
\* address p.address + range.start, length range.end - range.start and the
\* key of the root, is a node, and is local exactly when p is local, range
\* being the entry the call added to p's sub (and, for slice, its argument);
\* (2) no field of a region changes while the region lives; (3) in every
\* state every live node, at any depth, is a node with the root's key and
\* with its parent's locality.
C16_ChildAttributes ==
    /\ [](\A c \in RegionIds :
             (mr[c].live /\ c # Root) =>
                 /\ is_node(c) /\ mr[c].root = Root
                 /\ mr[c].key = mr[Root].key
                 /\ is_local(c) <=> is_local(mr[c].fa))
    /\ [][/\ (ret'.op \in {"slice", "alloc"} /\ ret'.ok) =>
                LET c == ret'.region
                    p == mr'[c].fa
                    range == Added(p)
                IN  /\ mr'[c].addr = mr[p].addr + range.start
                    /\ mr'[c].length = range.end - range.start
                    /\ mr'[c].key = mr[Root].key
                    /\ mr'[c].kind \in {"LocalNode", "RemoteNode"}
                    /\ mr'[c].kind = "LocalNode"
                          <=> mr[p].kind \in {"LocalRoot", "LocalNode"}
                    /\ ret'.op = "slice" => Slice(p, range)
          /\ \A r \in RegionIds : (mr[r].live /\ mr'[r].live) => mr'[r] = mr[r]
         ]_vars

\* A slice on a remote node, itself not at the start of the imported root,
\* has just returned a node that does not start where its parent starts.
C16_Witness ==
    /\ ret.op = "slice" /\ ret.ok
    /\ mr[ret.region].kind = "RemoteNode"
    /\ mr[ret.region].fa # Root
    /\ mr[ret.region].addr > mr[mr[ret.region].fa].addr
    /\ mr[mr[ret.region].fa].addr > mr[Root].addr
    /\ mr[ret.region].key = 3

RECURSIVE Ancestors(_)
\* The regions above live node c: its parent, its parent's parent, up to
\* the root.
Ancestors(c) ==
    IF c = Root \/ ~mr[c].live THEN {}
    ELSE {mr[c].fa} \cup Ancestors(mr[c].fa)

\* C18 (tree-wide disjointness): in every state the sequential machine
\* reaches, two live regions of which neither is an ancestor of the other
\* (siblings, or regions under different parents) cover disjoint absolute
\* bytes, and a live node's bytes lie inside the bytes of each of its
\* ancestors.
C18_TreeDisjoint ==
    \A c, d \in DOMAIN mr :
        (mr[c].live /\ mr[d].live /\ c # d) =>
            /\ (c \notin Ancestors(d) /\ d \notin Ancestors(c))
                  => Span(c) \cap Span(d) = {}
            /\ c \in Ancestors(d) => Span(d) \subseteq Span(c)

\* A node of a node ends, with its parent, on the byte where a child of the
\* root starts: the two live under different parents, and a third node and
\* the root are above the first.
C18_Witness ==
    \E c, d \in DOMAIN mr :
        /\ mr[c].live /\ mr[d].live
        /\ mr[c].fa # Root /\ mr[d].fa = Root /\ d # mr[c].fa
        /\ Ancestors(c) = {mr[c].fa, Root}
        /\ mr[c].addr + mr[c].length = mr[d].addr
        /\ mr[c].addr > mr[mr[c].fa].addr

(* --------------------------- properties of progress -------------------- *)

\* Thread t is inside a call.
Busy(t) == pc[t] \notin {"idle", "panicked"}

C20_ZeroAlloc ==
    /\ [](\A p \in DOMAIN mr :
             (held[Main][p] /\ ~fatal) =>
                 /\ AllocRange(sub[p], mr[p].length, 0).ok
                 /\ AllocRange(sub[p], mr[p].length, 0).range.start
                       = AllocRange(sub[p], mr[p].length, 0).range.end
                 /\ ~AllocCall(p, 0).ok
                 /\ AllocCall(p, 0).err = "InvalidRange"
                 /\ AllocCall(p, 0).sub = sub[p])
    /\ [][/\ (ret'.op = "alloc" /\ ret'.err = "InvalidRange") =>
                /\ ~ret'.ok
                /\ sub' = sub /\ mr' = mr /\ strong' = strong
          /\ (ret'.op = "alloc" /\ ret'.ok) => mr'[ret'.region].length > 0
         ]_vars

\* An alloc has just failed at the range guard of slice on a root that is
\* entirely free, which only alloc(root, 0) does.
C20_Witness ==
    /\ ret.op = "alloc" /\ ~ret.ok /\ ret.err = "InvalidRange"
    /\ held[Main][Root] /\ sub[Root] = <<>> /\ Children(Root) = {}
    /\ ~fatal

=============================================================================
